---- MODULE Spec2Model ----
(***************************************************************************)
(* Model of motors/src/main.cpp: the serial-controlled stepper/servo       *)
(* firmware.  One loop() iteration is four steps, in order:                *)
(*   processSerialCommand -> moveStepperToAngle -> moveServoToAngle ->     *)
(*   delay(10).                                                            *)
(*                                                                         *)
(* Angles of the stepper are floats in the code.  Every value the code can *)
(* compute is an integer number of degrees (a data byte) plus or minus a   *)
(* multiple of 1.8 degrees, so the model keeps them exactly, in tenths of  *)
(* a degree (Deg(1) = 10).  Every comparison of the code (0.5 dead-band,   *)
(* overshoot test, range test) is then either at least 0.1 degree away     *)
(* from a tie or gives the same result on both sides of the tie, so the    *)
(* float rounding of the build does not change any branch taken.           *)
(***************************************************************************)
EXTENDS Integers, Sequences, FiniteSets, TLC

VARIABLES
    rx,                   \* bytes waiting in the Serial receive buffer
    sent,                 \* number of bytes the host has sent so far
    pc,                   \* next statement of loop() to run
    currentStepperAngle,  \* tenths of a degree
    targetStepperAngle,   \* degrees, as stored from the data byte
    currentServoAngle,    \* degrees
    targetServoAngle,     \* degrees, as stored from the data byte
    consumed,             \* bytes read by the last processSerialCommand
    frame,                \* frame dispatched by the last processSerialCommand
    diag,                 \* diagnostic printed by the last processSerialCommand
    dirPin,               \* level of DIR_PIN
    stepPulses,           \* pulses on STEP_PIN in the last moveStepperToAngle
    servoWrites,          \* angles given to myServo.write by the last writer
    startAngle,           \* currentStepperAngle when the stepper target last changed
    moveTicks,            \* moveStepperToAngle calls that moved since then
    motorSteps,           \* pulses sent with DIR high minus pulses sent with DIR low
    strays,               \* stray bytes a resynchronising host has sent
    hostFrame,            \* the frame that host has sent after them, or <<>>
    frameAt,              \* place of that frame's first byte in rx, 0 if not in rx
    resynced              \* that frame has been dispatched

vars == <<rx, sent, pc, currentStepperAngle, targetStepperAngle,
          currentServoAngle, targetServoAngle, consumed, frame, diag,
          dirPin, stepPulses, servoWrites, startAngle, moveTicks, motorSteps,
          strays, hostFrame, frameAt, resynced>>

serialVars  == <<rx, consumed, frame, diag>>
stepperVars == <<currentStepperAngle, dirPin, stepPulses>>
servoVars   == <<currentServoAngle, servoWrites>>
targetVars  == <<targetStepperAngle, targetServoAngle>>
historyVars == <<startAngle, moveTicks>>
hostVars    == <<strays, hostFrame, frameAt, resynced>>

----------------------------------------------------------------------------
(* Program constants *)

START_BYTE  == 170
END_BYTE    == 85
SERVO_CMD   == 1
STEPPER_CMD == 2

stepsPerRevolution == 200
stepperMinAngle    == 0
stepperMaxAngle    == 270
servoMinAngle      == 0
servoMaxAngle      == 60
maxStepIncrement   == 2

(* Degrees to the fixed-point unit of the stepper angles. *)
Deg(d) == d * 10

DeadBandNone == Deg(0)

(* The literal 0.5 of the dead-band test. *)
DeadBand == Deg(1) \div 2

----------------------------------------------------------------------------
(* Arduino macros: abs, min and constrain are the macros of Arduino.h,      *)
(* which compare their arguments as they are (floats stay floats).         *)

Abs(x) == IF x > 0 THEN x ELSE -x

Min(a, b) == IF a < b THEN a ELSE b

Constrain(amt, low, high) ==
    IF amt < low THEN low ELSE IF amt > high THEN high ELSE amt

----------------------------------------------------------------------------
(* moveStepperToAngle *)

(* targetAngle after the constrain on entry, in tenths. *)
StepperTarget(targetAngle) ==
    Constrain(Deg(targetAngle), Deg(stepperMinAngle), Deg(stepperMaxAngle))

StepsToMoveNoFloor(angleDiff) ==
    (Min(Abs(angleDiff), Deg(maxStepIncrement)) * stepsPerRevolution) \div Deg(360)

StepsToMoveNoMin(angleDiff) ==
    LET raw == (Abs(angleDiff) * stepsPerRevolution) \div Deg(360)
    IN  IF raw = 0 THEN 1 ELSE raw

(* Float-to-int conversion of min(|diff|, maxStepIncrement) * 200 / 360.0,  *)
(* which truncates, then the floor of one step.                             *)
StepsToMove(angleDiff) ==
    LET raw == (Min(Abs(angleDiff), Deg(maxStepIncrement)) * stepsPerRevolution)
                   \div Deg(360)
    IN  IF raw = 0 THEN 1 ELSE raw

StepAngleIntDiv(stepsToMove) == Deg(stepsToMove * (360 \div stepsPerRevolution))

(* stepsToMove * 360.0 / stepsPerRevolution, in tenths. *)
StepAngle(stepsToMove) == (stepsToMove * Deg(360)) \div stepsPerRevolution

(* The update of currentStepperAngle: advance, stop at the target, constrain. *)
AdvanceNoClamp(current, targetAngle, stepsToMove) ==
    IF targetAngle - current > 0
    THEN current + StepAngle(stepsToMove)
    ELSE current - StepAngle(stepsToMove)

AdvanceReversed(current, targetAngle, stepsToMove) ==
    IF targetAngle - current > 0
    THEN current - StepAngle(stepsToMove)
    ELSE current + StepAngle(stepsToMove)

AdvanceNoOvershootTest(current, targetAngle, stepsToMove) ==
    Constrain(AdvanceNoClamp(current, targetAngle, stepsToMove),
              Deg(stepperMinAngle), Deg(stepperMaxAngle))

Advance(current, targetAngle, stepsToMove) ==
    LET moved ==
            IF targetAngle - current > 0
            THEN LET up == current + StepAngle(stepsToMove)
                 IN  IF up > targetAngle THEN targetAngle ELSE up
            ELSE LET down == current - StepAngle(stepsToMove)
                 IN  IF down < targetAngle THEN targetAngle ELSE down
    IN  Constrain(moved, Deg(stepperMinAngle), Deg(stepperMaxAngle))

MoveStepperToAngle ==
    /\ pc = "stepper"
    /\ LET targetAngle == StepperTarget(targetStepperAngle)
           angleDiff   == targetAngle - currentStepperAngle
       IN  IF Abs(angleDiff) < DeadBand
           THEN /\ stepPulses' = 0
                /\ UNCHANGED <<currentStepperAngle, dirPin, moveTicks, motorSteps>>
           ELSE LET stepsToMove == StepsToMove(angleDiff)
                IN  /\ dirPin' = IF angleDiff > 0 THEN "HIGH" ELSE "LOW"
                    /\ stepPulses' = stepsToMove
                    /\ currentStepperAngle' =
                           Advance(currentStepperAngle, targetAngle, stepsToMove)
                    /\ moveTicks' = moveTicks + 1
                    /\ motorSteps' = IF angleDiff > 0
                                     THEN motorSteps + stepsToMove
                                     ELSE motorSteps - stepsToMove
    /\ pc' = "servo"
    /\ UNCHANGED <<serialVars, sent, targetVars, servoVars, startAngle, hostVars>>

----------------------------------------------------------------------------
(* moveServoToAngle *)

ServoTargetRaw(targetAngle) == targetAngle

ServoTarget(targetAngle) == Constrain(targetAngle, servoMinAngle, servoMaxAngle)

(* The angle written when the target differs: the target itself, at once. *)
ServoStepRamp(current, targetAngle) ==
    IF targetAngle > current THEN current + 1 ELSE current - 1

ServoStep(current, targetAngle) == targetAngle

MoveServoToAngleAlwaysWrites ==
    /\ pc = "servo"
    /\ servoWrites' = <<ServoTarget(targetServoAngle)>>
    /\ currentServoAngle' = ServoTarget(targetServoAngle)
    /\ pc' = "delay"
    /\ UNCHANGED <<serialVars, sent, targetVars, stepperVars, historyVars,
                   motorSteps, hostVars>>

MoveServoToAngleClampsGlobal ==
    /\ pc = "servo"
    /\ targetServoAngle' = ServoTarget(targetServoAngle)
    /\ IF targetServoAngle' # currentServoAngle
       THEN /\ servoWrites' = <<targetServoAngle'>>
            /\ currentServoAngle' = targetServoAngle'
       ELSE /\ servoWrites' = <<>>
            /\ UNCHANGED currentServoAngle
    /\ pc' = "delay"
    /\ UNCHANGED <<serialVars, sent, targetStepperAngle, stepperVars, historyVars,
                   motorSteps, hostVars>>

MoveServoToAngle ==
    /\ pc = "servo"
    /\ LET targetAngle == ServoTarget(targetServoAngle)
       IN  IF targetAngle # currentServoAngle
           THEN /\ servoWrites' = <<ServoStep(currentServoAngle, targetAngle)>>
                /\ currentServoAngle' = ServoStep(currentServoAngle, targetAngle)
           ELSE /\ servoWrites' = <<>>
                /\ UNCHANGED currentServoAngle
    /\ pc' = "delay"
    /\ UNCHANGED <<serialVars, sent, targetVars, stepperVars, historyVars,
                   motorSteps, hostVars>>

----------------------------------------------------------------------------
(* processSerialCommand *)

Drop(s, n) == SubSeq(s, n + 1, Len(s))

(* Number of bytes the invocation reads from a buffer holding s. *)
BytesReadWholeFrame(s) == IF Len(s) < 4 THEN 0 ELSE 4

BytesReadEager(s) ==
    IF Len(s) = 0 THEN 0
    ELSE IF s[1] = START_BYTE THEN Min(4, Len(s)) ELSE 1

BytesReadAll(s) == IF Len(s) < 4 THEN 0 ELSE Len(s)

BytesRead(s) ==
    IF Len(s) < 4 THEN 0
    ELSE IF s[1] = START_BYTE THEN 4 ELSE 1

DispatchedNoEndCheck(s) == Len(s) >= 4 /\ s[1] = START_BYTE

(* The frame reaches the switch: both markers are right. *)
Dispatched(s) == Len(s) >= 4 /\ s[1] = START_BYTE /\ s[4] = END_BYTE

(* The switch on the command byte of a frame whose markers are right. *)
DispatchFallThrough(cmd, data) ==
    CASE cmd = SERVO_CMD ->
           /\ targetServoAngle' = data
           /\ targetStepperAngle' = data
           /\ diag' = "Stepper target"
      [] cmd = STEPPER_CMD ->
           /\ targetStepperAngle' = data
           /\ diag' = "Stepper target"
           /\ UNCHANGED targetServoAngle
      [] OTHER ->
           /\ diag' = "Unknown command"
           /\ UNCHANGED targetVars

DispatchTwoWay(cmd, data) ==
    IF cmd = SERVO_CMD
    THEN /\ targetServoAngle' = data
         /\ diag' = "Servo target"
         /\ UNCHANGED targetStepperAngle
    ELSE /\ targetStepperAngle' = data
         /\ diag' = "Stepper target"
         /\ UNCHANGED targetServoAngle

Dispatch(cmd, data) ==
    CASE cmd = SERVO_CMD ->
           /\ targetServoAngle' = data
           /\ diag' = "Servo target"
           /\ UNCHANGED targetStepperAngle
      [] cmd = STEPPER_CMD ->
           /\ targetStepperAngle' = data
           /\ diag' = "Stepper target"
           /\ UNCHANGED targetServoAngle
      [] OTHER ->
           /\ diag' = "Unknown command"
           /\ UNCHANGED targetVars

ProcessSerialCommand ==
    /\ pc = "serial"
    /\ rx' = Drop(rx, BytesRead(rx))
    /\ consumed' = BytesRead(rx)
    /\ IF Dispatched(rx)
       THEN /\ frame' = SubSeq(rx, 1, 4)
            /\ Dispatch(rx[2], rx[3])
       ELSE /\ frame' = <<>>
            /\ diag' = "none"
            /\ UNCHANGED targetVars
    /\ IF targetStepperAngle' # targetStepperAngle
       THEN startAngle' = currentStepperAngle /\ moveTicks' = 0
       ELSE UNCHANGED historyVars
    /\ frameAt' = IF frameAt > BytesRead(rx) THEN frameAt - BytesRead(rx) ELSE 0
    /\ resynced' = (resynced \/ (frameAt = 1 /\ Dispatched(rx)))
    /\ pc' = "stepper"
    /\ UNCHANGED <<sent, stepperVars, servoVars, motorSteps, strays, hostFrame>>

----------------------------------------------------------------------------
(* loop: the closing delay(10), after which the next iteration starts *)

Delay ==
    /\ pc = "delay"
    /\ pc' = "serial"
    /\ UNCHANGED <<serialVars, sent, targetVars, stepperVars, servoVars,
                   historyVars, motorSteps, hostVars>>

LoopStep ==
    \/ ProcessSerialCommand
    \/ MoveStepperToAngle
    \/ MoveServoToAngle
    \/ Delay

----------------------------------------------------------------------------
(* The host *)

(* Bytes the host may put on the wire, each in any position: the two       *)
(* markers and the two commands.  As a command byte 0x55 and 0xAA are      *)
(* unknown commands; as a data byte they are targets above the servo       *)
(* range, 0x01 and 0x02 targets inside it.                                 *)
Bytes == {SERVO_CMD, STEPPER_CMD, END_BYTE, START_BYTE}

MaxSent == 8

(* One byte arrives in the receive buffer.  The buffer is read only by     *)
(* processSerialCommand, so bytes that arrive during an iteration are seen *)
(* as if they had arrived during its closing delay.                        *)
Receive ==
    /\ pc = "delay"
    /\ sent < MaxSent
    /\ \E b \in Bytes : rx' = Append(rx, b)
    /\ sent' = sent + 1
    /\ UNCHANGED <<pc, consumed, frame, diag, targetVars, stepperVars, servoVars,
                   historyVars, motorSteps, hostVars>>

(* A host that sends whole, aligned, valid frames, one after the previous  *)
(* one has been read, without end.                                         *)
StepperData == {0, 7, 200}
ServoData   == {45}

HostFrames ==
    {<<START_BYTE, STEPPER_CMD, d, END_BYTE>> : d \in StepperData}
        \cup {<<START_BYTE, SERVO_CMD, d, END_BYTE>> : d \in ServoData}

SendFrame ==
    /\ pc = "delay"
    /\ rx = <<>>
    /\ \E f \in HostFrames : rx' = f
    /\ UNCHANGED <<sent, pc, consumed, frame, diag, targetVars, stepperVars,
                   servoVars, historyVars, motorSteps, hostVars>>

(* A host that sends up to MaxStray stray bytes and then one valid frame,  *)
(* and nothing after it.  Four stray bytes can themselves be a frame, so   *)
(* the late frame may retarget a motor that is already moving.             *)
MaxStray == 4

LateData == {1, END_BYTE}

LateFrames ==
    {<<START_BYTE, c, d, END_BYTE>> : c \in {SERVO_CMD, STEPPER_CMD}, d \in LateData}

SendStray ==
    /\ pc = "delay"
    /\ hostFrame = <<>>
    /\ Len(strays) < MaxStray
    /\ \E b \in Bytes : rx' = Append(rx, b) /\ strays' = Append(strays, b)
    /\ UNCHANGED <<sent, pc, consumed, frame, diag, targetVars, stepperVars,
                   servoVars, historyVars, motorSteps, hostFrame, frameAt,
                   resynced>>

SendLateFrame ==
    /\ pc = "delay"
    /\ hostFrame = <<>>
    /\ \E f \in LateFrames : rx' = rx \o f /\ hostFrame' = f
    /\ frameAt' = Len(rx) + 1
    /\ UNCHANGED <<sent, pc, consumed, frame, diag, targetVars, stepperVars,
                   servoVars, historyVars, motorSteps, strays, resynced>>

(* State after setup(). *)
Init ==
    /\ rx = <<>>
    /\ sent = 0
    /\ pc = "serial"
    /\ currentStepperAngle = Deg(stepperMinAngle)
    /\ targetStepperAngle = stepperMinAngle
    /\ currentServoAngle = servoMinAngle
    /\ targetServoAngle = servoMinAngle
    /\ consumed = 0
    /\ frame = <<>>
    /\ diag = "none"
    /\ dirPin = "LOW"
    /\ stepPulses = 0
    /\ servoWrites = <<servoMinAngle>>
    /\ startAngle = Deg(stepperMinAngle)
    /\ moveTicks = 0
    /\ motorSteps = 0
    /\ strays = <<>>
    /\ hostFrame = <<>>
    /\ frameAt = 0
    /\ resynced = FALSE

Next == Receive \/ ProcessSerialCommand \/ MoveStepperToAngle
           \/ MoveServoToAngle \/ Delay

Spec == Init /\ [][Next]_vars

NextFrames == SendFrame \/ ProcessSerialCommand \/ MoveStepperToAngle
                 \/ MoveServoToAngle \/ Delay

SpecFrames == Init /\ [][NextFrames]_vars

(* The loop always takes its next step: loop() is called again for ever.   *)
LoopFairness == WF_vars(LoopStep)

NextResync == SendStray \/ SendLateFrame \/ ProcessSerialCommand
                 \/ MoveStepperToAngle \/ MoveServoToAngle \/ Delay

SpecResync == Init /\ [][NextResync]_vars /\ LoopFairness

----------------------------------------------------------------------------
(* Properties *)

CeilDiv(a, b) == (a + b - 1) \div b

Converged ==
    Abs(Constrain(Deg(targetStepperAngle), Deg(0), Deg(270)) - currentStepperAngle)
        < DeadBand

(* The buffer starts with four bytes that form a frame with both markers. *)
HeadIsValidFrame == Len(rx) >= 4 /\ rx[1] = 170 /\ rx[4] = 85

(* The buffer starts with four bytes whose first or fourth is not a marker. *)
HeadIsMalformed == Len(rx) >= 4 /\ (rx[1] # 170 \/ rx[4] # 85)

Frame200 == <<170, 2, 200, 85>>

(* C1: in every reachable state, and so after every moveStepperToAngle,    *)
(* currentStepperAngle lies in the closed range [0, 270] degrees.          *)
C1_StepperInRange ==
    currentStepperAngle >= Deg(0) /\ currentStepperAngle <= Deg(270)

(* The stepper has stepped down from 7 degrees towards 0 and the last      *)
(* step, which would have ended at -0.2, left it at the range's lower end. *)
C1_Witness ==
    /\ pc = "servo"
    /\ targetStepperAngle = 0
    /\ startAngle = Deg(7)
    /\ moveTicks = 4
    /\ stepPulses = 1
    /\ dirPin = "LOW"
    /\ currentStepperAngle = Deg(0)

(* C2 as stated: with the target unchanged, the stepper has converged      *)
(* (|target - current| < 0.5) once ceil(|T - C| / maxStepIncrement) calls  *)
(* of moveStepperToAngle have run since the target was set, C being the    *)
(* angle at that time.                                                     *)
C2_Original ==
    moveTicks >= CeilDiv(Abs(Deg(targetStepperAngle) - startAngle),
                         Deg(maxStepIncrement))
        => Converged

(* C2 amended: with the target unchanged, the stepper has converged once   *)
(* ceil(|T - C| / 1.8) calls of moveStepperToAngle have run, 1.8 degrees   *)
(* (one motor step) being what one call moves.                             *)
C2_ConvergesWithinStepTicks ==
    moveTicks >= CeilDiv(Abs(Deg(targetStepperAngle) - startAngle), 18)
        => Converged

(* From 0 to 200 degrees: converged after 111 moving calls, more than the  *)
(* 100 that maxStepIncrement would give, within the 112 of the step angle. *)
C2_Witness ==
    /\ targetStepperAngle = 200
    /\ startAngle = Deg(0)
    /\ moveTicks = 111
    /\ Converged

(* C3 as stated: the tick that decodes [0xAA, 0x02, 200, 0x55] with the    *)
(* stepper at 0 sets the target to 200 and moves the stepper to exactly    *)
(* maxStepIncrement = 2 degrees with one pulse.                            *)
C3_Original ==
    [][(pc = "stepper" /\ frame = Frame200 /\ currentStepperAngle = Deg(0))
          => /\ targetStepperAngle = 200
             /\ stepPulses' = 1
             /\ currentStepperAngle' = Deg(2)]_vars

(* C3 amended: that tick sets the target to 200 and moves the stepper one  *)
(* motor step, to exactly 1.8 degrees, with one pulse and DIR high.        *)
C3_OneStepTowards200 ==
    [][(pc = "stepper" /\ frame = Frame200 /\ currentStepperAngle = Deg(0))
          => /\ targetStepperAngle = 200
             /\ stepPulses' = 1
             /\ dirPin' = "HIGH"
             /\ currentStepperAngle' = 18]_vars

(* The state after the stepper step of that tick. *)
C3_Witness ==
    /\ pc = "servo"
    /\ frame = Frame200
    /\ targetStepperAngle = 200
    /\ startAngle = Deg(0)
    /\ moveTicks = 1
    /\ stepPulses = 1
    /\ currentStepperAngle = 18

(* C4: every call of moveStepperToAngle leaves currentStepperAngle no      *)
(* farther from the clamped target than before, on the same side of it (or *)
(* on it), and at most maxStepIncrement degrees from where it was.         *)
C4_MonotoneNoOvershoot ==
    [][pc = "stepper" =>
          LET t == Constrain(Deg(targetStepperAngle), Deg(0), Deg(270))
              old == currentStepperAngle
              new == currentStepperAngle'
          IN  /\ Abs(t - new) <= Abs(t - old)
              /\ (t - old) * (t - new) >= 0
              /\ Abs(new - old) <= Deg(maxStepIncrement)]_vars

(* From 0 towards 7 degrees: the fourth step would end at 7.2 and is cut   *)
(* back to the target.                                                     *)
C4_Witness ==
    /\ pc = "servo"
    /\ targetStepperAngle = 7
    /\ startAngle = Deg(0)
    /\ moveTicks = 4
    /\ stepPulses = 1
    /\ dirPin = "HIGH"
    /\ currentStepperAngle = Deg(7)

(* C5: every angle written to the servo and every value of                 *)
(* currentServoAngle is in [0, 60]; once moveServoToAngle has run the      *)
(* applied angle is clamp(targetServoAngle, 0, 60), which is 60 and not    *)
(* the data byte for a data byte above 60.                                 *)
C5_ServoClamped ==
    /\ currentServoAngle >= 0 /\ currentServoAngle <= 60
    /\ \A i \in 1..Len(servoWrites) : servoWrites[i] >= 0 /\ servoWrites[i] <= 60
    /\ pc \in {"delay", "serial"} =>
          /\ currentServoAngle = Constrain(targetServoAngle, 0, 60)
          /\ targetServoAngle > 60 => currentServoAngle = 60

(* A servo target of 170 has been applied as 60. *)
C5_Witness ==
    /\ pc = "delay"
    /\ targetServoAngle = 170
    /\ servoWrites = <<60>>
    /\ currentServoAngle = 60

(* C6: in the tick that decodes a valid frame [0xAA, 0x01, d, 0x55],       *)
(* targetServoAngle is d from the decode on, and after the servo step of   *)
(* that same tick currentServoAngle is clamp(d, 0, 60), reached by at most *)
(* one servo write, of that very angle.                                    *)
C6_ServoFrameAppliedSameTick ==
    (Len(frame) = 4 /\ frame[2] = 1) =>
        /\ targetServoAngle = frame[3]
        /\ pc = "delay" =>
              /\ currentServoAngle = Constrain(frame[3], 0, 60)
              /\ Len(servoWrites) <= 1
              /\ \A i \in 1..Len(servoWrites) :
                    servoWrites[i] = Constrain(frame[3], 0, 60)

(* The frame [0xAA, 0x01, 0x55, 0x55] has taken the servo to 60 degrees in *)
(* one write, in the tick that decoded it.                                 *)
C6_Witness ==
    /\ pc = "delay"
    /\ frame = <<170, 1, 85, 85>>
    /\ targetServoAngle = 85
    /\ servoWrites = <<60>>
    /\ currentServoAngle = 60

(* C7: a frame with both markers and command 0x01 sets targetServoAngle to *)
(* its data byte and leaves targetStepperAngle; with command 0x02 it sets  *)
(* targetStepperAngle and leaves targetServoAngle; no step changes both.   *)
C7_OneTargetPerFrame ==
    [][/\ (pc = "serial" /\ HeadIsValidFrame /\ rx[2] = 1) =>
             (targetServoAngle' = rx[3] /\ UNCHANGED targetStepperAngle)
       /\ (pc = "serial" /\ HeadIsValidFrame /\ rx[2] = 2) =>
             (targetStepperAngle' = rx[3] /\ UNCHANGED targetServoAngle)
       /\ ~(targetServoAngle' # targetServoAngle
              /\ targetStepperAngle' # targetStepperAngle)]_vars

(* A servo frame has been dispatched while the stepper target set by an    *)
(* earlier frame is still in place.                                        *)
C7_Witness ==
    /\ pc = "stepper"
    /\ frame = <<170, 1, 85, 85>>
    /\ targetServoAngle = 85
    /\ targetStepperAngle = 2

(* C8: processing four bytes whose first is not 0xAA or whose fourth is    *)
(* not 0x55 changes neither target, and the loop can always take its next  *)
(* step.                                                                   *)
C8_MalformedFrameIgnored ==
    /\ [](ENABLED LoopStep)
    /\ [][(pc = "serial" /\ HeadIsMalformed) => UNCHANGED targetVars]_vars

(* A frame with a wrong end marker has been read whole and dropped; the    *)
(* stepper target set by the frame before it is still in place.            *)
C8_Witness ==
    /\ pc = "stepper"
    /\ consumed = 4
    /\ frame = <<>>
    /\ targetStepperAngle = 85
    /\ sent = 8

(* C9: a frame with both markers and a command byte other than 0x01 and    *)
(* 0x02 changes neither target nor any motor state; it prints the          *)
(* unknown-command diagnostic and its four bytes are consumed.             *)
C9_UnknownCommandIgnored ==
    [][(pc = "serial" /\ HeadIsValidFrame /\ rx[2] \notin {1, 2}) =>
          /\ UNCHANGED targetVars
          /\ UNCHANGED <<stepperVars, servoVars>>
          /\ diag' = "Unknown command"
          /\ consumed' = 4
          /\ rx' = SubSeq(rx, 5, Len(rx))]_vars

(* An unknown command has been reported after an earlier frame had set the *)
(* stepper target, which is still in place.                                *)
C9_Witness ==
    /\ pc = "stepper"
    /\ diag = "Unknown command"
    /\ consumed = 4
    /\ targetStepperAngle = 85

(* C10 as stated: with at least 4 bytes available processSerialCommand     *)
(* consumes exactly 4 bytes, also when byte 0 is not 0xAA, and then        *)
(* produces no frame.                                                      *)
C10_Original ==
    [][(pc = "serial" /\ Len(rx) >= 4) =>
          /\ rx' = SubSeq(rx, 5, Len(rx))
          /\ rx[1] # 170 => (frame' = <<>> /\ UNCHANGED targetVars)]_vars

(* C10 amended: with at least 4 bytes available processSerialCommand       *)
(* consumes exactly 4 bytes when byte 0 is 0xAA; when byte 0 is not 0xAA   *)
(* it consumes that byte alone, the 3 subsequent bytes stay in the buffer, *)
(* and no frame is produced.                                               *)
C10_StartMismatchReadsOneByte ==
    [][(pc = "serial" /\ Len(rx) >= 4) =>
          /\ rx[1] = 170 => rx' = SubSeq(rx, 5, Len(rx))
          /\ rx[1] # 170 =>
                /\ rx' = SubSeq(rx, 2, Len(rx))
                /\ frame' = <<>>
                /\ diag' = "none"
                /\ UNCHANGED targetVars]_vars

(* A byte that is not the start marker has been read and the three bytes   *)
(* behind it, a start marker first, are still in the buffer.               *)
C10_Witness ==
    /\ pc = "stepper"
    /\ consumed = 1
    /\ frame = <<>>
    /\ Len(rx) = 3
    /\ rx[1] = 170

(* C11: once the stepper is within 0.5 degrees of its clamped target a     *)
(* call of moveStepperToAngle sends no pulse and leaves the angle; once    *)
(* the servo is at its clamped target a call of moveServoToAngle writes    *)
(* nothing and leaves the angle; and decoding a valid frame that carries   *)
(* the target already set leaves that target, so this lasts until a        *)
(* different target arrives.                                               *)
C11_NoMotionOnceAtTarget ==
    [][/\ (pc = "stepper"
             /\ Abs(Constrain(Deg(targetStepperAngle), Deg(0), Deg(270))
                      - currentStepperAngle) < 5) =>
             (stepPulses' = 0 /\ UNCHANGED <<currentStepperAngle, motorSteps>>)
       /\ (pc = "servo"
             /\ currentServoAngle = Constrain(targetServoAngle, 0, 60)) =>
             (servoWrites' = <<>> /\ UNCHANGED currentServoAngle)
       /\ (pc = "serial" /\ HeadIsValidFrame /\ rx[2] = 2
             /\ rx[3] = targetStepperAngle) =>
             UNCHANGED <<targetStepperAngle, currentStepperAngle, historyVars>>
       /\ (pc = "serial" /\ HeadIsValidFrame /\ rx[2] = 1
             /\ rx[3] = targetServoAngle) =>
             UNCHANGED <<targetServoAngle, currentServoAngle>>]_vars

(* The frame for 200 degrees has been decoded again after the stepper had  *)
(* converged at 199.8 degrees, and the stepper step of that tick sent no   *)
(* pulse.                                                                  *)
C11_Witness ==
    /\ pc = "servo"
    /\ frame = Frame200
    /\ targetStepperAngle = 200
    /\ startAngle = Deg(0)
    /\ moveTicks = 111
    /\ stepPulses = 0
    /\ currentStepperAngle = 1998

(* C12: with fewer than 4 bytes available processSerialCommand reads no    *)
(* byte, leaves the buffer and both targets as they are, dispatches no     *)
(* frame and prints nothing.                                               *)
C12_ShortBufferUntouched ==
    [][(pc = "serial" /\ Len(rx) < 4) =>
          /\ rx' = rx
          /\ consumed' = 0
          /\ frame' = <<>>
          /\ diag' = "none"
          /\ UNCHANGED targetVars]_vars

(* A tick has passed over the first three bytes of a frame and left them.  *)
C12_Witness ==
    /\ pc = "stepper"
    /\ consumed = 0
    /\ rx = <<170, 2, 85>>
    /\ diag = "none"

(* C13 as stated: currentServoAngle and targetServoAngle are both within   *)
(* [0, 60] in every reachable state.                                       *)
C13_Original ==
    /\ currentServoAngle >= 0 /\ currentServoAngle <= 60
    /\ targetServoAngle >= 0 /\ targetServoAngle <= 60

(* C13 amended: currentServoAngle is within [0, 60] in every reachable     *)
(* state; targetServoAngle holds the data byte as received, within         *)
(* [0, 255].                                                               *)
C13_ServoStateRanges ==
    /\ currentServoAngle \in 0..60
    /\ targetServoAngle \in 0..255

(* The servo target holds the data byte 0x55 = 85 while the servo is at    *)
(* 60.                                                                     *)
C13_Witness ==
    /\ pc = "serial"
    /\ targetServoAngle = 85
    /\ currentServoAngle = 60

(* Distance of the stepper from its clamped target, in tenths of a degree. *)
StepperDistance ==
    Abs(Constrain(Deg(targetStepperAngle), Deg(0), Deg(270)) - currentStepperAngle)

(* C14: once the host has sent its last frame, so that the stepper target  *)
(* stays fixed, the stepper comes within 0.5 degrees of the clamped target *)
(* and stays there for ever; and every call of moveStepperToAngle made     *)
(* outside the dead-band sends at least one pulse and leaves the stepper   *)
(* strictly nearer the target.                                             *)
C14_ConvergesAndStays ==
    /\ <>[](StepperDistance < 5)
    /\ [][(pc = "stepper" /\ StepperDistance >= 5) =>
             (stepPulses' >= 1 /\ StepperDistance' < StepperDistance)]_vars

(* The stepper has come down from 84.6 degrees and rests on its target of  *)
(* 1 degree, reached with a last step shorter than a motor step.           *)
C14_Witness ==
    /\ pc = "serial"
    /\ hostFrame = <<170, 2, 1, 85>>
    /\ resynced
    /\ targetStepperAngle = 1
    /\ startAngle = 846
    /\ moveTicks = 47
    /\ currentStepperAngle = Deg(1)

RoundDiv(a, b) == (2 * a + b) \div (2 * b)

(* max(1, round(min(|angleDiff|, maxStepIncrement) * stepsPerRevolution    *)
(* / 360)), for angleDiff in tenths of a degree.                           *)
ReferenceSteps(angleDiff) ==
    LET r == RoundDiv(Min(Abs(angleDiff), 20) * 200, 3600)
    IN  IF r < 1 THEN 1 ELSE r

(* C15: a call of moveStepperToAngle with |angleDiff| >= 0.5 sends as many *)
(* pulses as the reference max(1, round(min(|angleDiff|, 2) * 200 / 360))  *)
(* gives, and a call with |angleDiff| < 0.5 sends none.                    *)
C15_PulsesMatchReference ==
    [][pc = "stepper" =>
          LET angleDiff == Constrain(Deg(targetStepperAngle), Deg(0), Deg(270))
                               - currentStepperAngle
          IN  stepPulses' = IF Abs(angleDiff) >= 5
                            THEN ReferenceSteps(angleDiff)
                            ELSE 0]_vars

(* The stepper came down from 84.6 degrees towards 1 degree; its last call *)
(* had angleDiff = -0.8, where the truncation gives 0 steps and the floor  *)
(* makes it 1, as the rounding of the reference does.                      *)
C15_Witness ==
    /\ pc = "servo"
    /\ targetStepperAngle = 1
    /\ startAngle = 846
    /\ moveTicks = 47
    /\ stepPulses = 1
    /\ dirPin = "LOW"
    /\ currentStepperAngle = Deg(1)

(* C16: a call of processSerialCommand takes at most 4 bytes out of the    *)
(* buffer; when two aligned valid frames are queued it dispatches the      *)
(* first and leaves the second at the head of the buffer, for the next     *)
(* tick.                                                                   *)
C16_OneFramePerTick ==
    [][pc = "serial" =>
          /\ Len(rx') >= Len(rx) - 4
          /\ (Len(rx) >= 8 /\ rx[1] = 170 /\ rx[4] = 85
                /\ rx[5] = 170 /\ rx[8] = 85) =>
                /\ frame' = SubSeq(rx, 1, 4)
                /\ rx' = SubSeq(rx, 5, Len(rx))]_vars

(* Two queued frames, stepper to 85 and then servo to 2, have been         *)
(* dispatched in two consecutive ticks: the servo frame in the tick of the *)
(* stepper's second step.                                                  *)
C16_Witness ==
    /\ pc = "delay"
    /\ sent = 8
    /\ rx = <<>>
    /\ frame = <<170, 1, 2, 85>>
    /\ targetStepperAngle = 85
    /\ startAngle = Deg(0)
    /\ moveTicks = 2
    /\ currentServoAngle = 2
    /\ servoWrites = <<2>>

(* C17: a call of moveServoToAngle writes the servo once when              *)
(* clamp(targetServoAngle, 0, 60) differs from currentServoAngle and not   *)
(* at all when it does not.                                                *)
C17_ServoWrittenIffChanged ==
    [][pc = "servo" =>
          Len(servoWrites') =
              IF Constrain(targetServoAngle, 0, 60) # currentServoAngle
              THEN 1 ELSE 0]_vars

(* The servo target went from 85 to 170, both applied as 60: the tick that *)
(* decoded the second frame wrote nothing.                                 *)
C17_Witness ==
    /\ pc = "delay"
    /\ frame = <<170, 1, 170, 85>>
    /\ targetServoAngle = 170
    /\ currentServoAngle = 60
    /\ servoWrites = <<>>

(* C18: processSerialCommand leaves both current angles; moveStepperToAngle *)
(* leaves both targets and the servo; moveServoToAngle leaves both targets *)
(* and the stepper.                                                        *)
C18_SingleWriter ==
    [][/\ pc = "serial" =>
             UNCHANGED <<currentStepperAngle, currentServoAngle, dirPin,
                         stepPulses, motorSteps, servoWrites>>
       /\ pc = "stepper" =>
             UNCHANGED <<targetStepperAngle, targetServoAngle,
                         currentServoAngle, servoWrites>>
       /\ pc = "servo" =>
             UNCHANGED <<targetStepperAngle, targetServoAngle,
                         currentStepperAngle, dirPin, stepPulses,
                         motorSteps>>]_vars

(* In one tick a servo frame was dispatched, the stepper stepped and the   *)
(* servo was written, and the servo target still holds the data byte.      *)
C18_Witness ==
    /\ pc = "delay"
    /\ frame = <<170, 1, 85, 85>>
    /\ targetServoAngle = 85
    /\ servoWrites = <<60>>
    /\ stepPulses = 1
    /\ targetStepperAngle = 85

(* C19 as stated: in every reachable state the tracked currentStepperAngle *)
(* is 1.8 degrees times the net number of pulses sent (DIR high minus DIR  *)
(* low).                                                                   *)
C19_TrackedAngleIsPulsePosition ==
    currentStepperAngle = 18 * motorSteps

(* No stray byte the host has sent is the start marker. *)
NoStartAmongStrays == \A i \in 1..Len(strays) : strays[i] # 170

(* C20 as stated: a valid frame sent after any stray prefix is eventually  *)
(* dispatched.                                                             *)
C20_Original == (hostFrame # <<>>) ~> resynced

(* C20 amended: a valid frame sent after a stray prefix that holds no 0xAA *)
(* byte is eventually dispatched.                                          *)
C20_ResyncAfterStraysWithoutStart ==
    (hostFrame # <<>> /\ NoStartAmongStrays) ~> resynced

(* Four stray bytes, none of them 0xAA, have been skipped one per tick and *)
(* the frame behind them has been dispatched.                              *)
C20_Witness ==
    /\ pc = "stepper"
    /\ strays = <<85, 1, 2, 85>>
    /\ hostFrame = <<170, 1, 85, 85>>
    /\ frame = hostFrame
    /\ targetServoAngle = 85
    /\ resynced

====
